---- MODULE Spec2Model ----
(***************************************************************************)
(* Model of the NFT transfer-event tracker (amanzeniq/nft-tracker).        *)
(*                                                                         *)
(* The tracker (pkg/services/transferEventTracker.go) backfills Transfer   *)
(* logs from a start block to the chain head, then re-queries the event    *)
(* source on every timer tick, pushing each returned log through           *)
(* decodeTransferLog, BigIntToInt and CreateUpdateNFT (pkg/models).        *)
(*                                                                         *)
(* Values keep their byte representation: a common.Hash is a sequence of   *)
(* 32 bytes, a common.Address one of 20 bytes, a big.Int a sign and a      *)
(* big-endian magnitude without leading zero bytes, a Go int (64 bit) the  *)
(* same with a magnitude of at most 8 bytes.  A hex string is the sequence *)
(* of its hex digits (0..15) after the "0x" prefix; the letter case that   *)
(* EIP-55 gives to Address.Hex() is not represented.                       *)
(***************************************************************************)
EXTENDS Integers, Sequences, FiniteSets, TLC

\* ------------------------------------------------------------------------
\* Bounds of the model
\* ------------------------------------------------------------------------
\* highest block number the chain reaches
MaxHead == 3
\* highest reading of the wall clock (time.Now)
MaxClock == 2

\* ------------------------------------------------------------------------
\* Program constants
\* ------------------------------------------------------------------------
\* common.HashLength of go-ethereum (types.Log.Topics, types.Log.TxHash)
HashLength == 32
\* common.AddressLength of go-ethereum (types.Log.Address)
AddressLength == 20
\* capacity of the channel time.Ticker.C
TickerChanCap == 1

\* ------------------------------------------------------------------------
\* Bytes, hex strings, addresses
\* ------------------------------------------------------------------------
Zeros(n) == [i \in 1..n |-> 0]

\* bs right-aligned in n bytes (bs is at most n bytes long)
LeftPad(bs, n) == Zeros(n - Len(bs)) \o bs

RECURSIVE StripZeros(_)
StripZeros(bs) ==
    IF bs = <<>> THEN <<>>
    ELSE IF Head(bs) = 0 THEN StripZeros(Tail(bs)) ELSE bs

\* hex digits of a byte string: Hash.Hex() and Address.Hex() without "0x"
BytesHex(bs) ==
    [i \in 1..(2 * Len(bs)) |->
        IF i % 2 = 1 THEN bs[(i + 1) \div 2] \div 16 ELSE bs[i \div 2] % 16]

\* a character of a string that is not a hex digit (nor a decimal digit)
NotADigit == 16

\* hex.DecodeString: the number of leading pairs of hex digits of d; any
\* character that is not one of the hex digits 0..15 ends the decoding
RECURSIVE HexPairs(_)
HexPairs(d) ==
    IF Len(d) < 2 \/ d[1] \notin 0..15 \/ d[2] \notin 0..15 THEN 0
    ELSE 1 + HexPairs(SubSeq(d, 3, Len(d)))

\* common.FromHex: an odd number of digits gets a leading "0"; Hex2Bytes
\* drops the decoding error and keeps the bytes decoded before it
FromHex(s) ==
    LET d == IF Len(s) % 2 = 1 THEN <<0>> \o s ELSE s
    IN  [i \in 1..HexPairs(d) |-> d[2 * i - 1] * 16 + d[2 * i]]

\* variant: keeps the first AddressLength bytes
BytesToAddressFirst(b) ==
    IF Len(b) > AddressLength THEN SubSeq(b, 1, AddressLength)
    ELSE LeftPad(b, AddressLength)

\* common.BytesToAddress: keeps the last AddressLength bytes, right-aligned
BytesToAddress(b) ==
    IF Len(b) > AddressLength
    THEN SubSeq(b, Len(b) - AddressLength + 1, Len(b))
    ELSE LeftPad(b, AddressLength)

HexToAddress(s) == BytesToAddress(FromHex(s))

\* ------------------------------------------------------------------------
\* big.Int and int64
\* ------------------------------------------------------------------------
MkInt(neg, abs) == [neg |-> neg /\ abs # <<>>, abs |-> abs]

\* Hash.Big(): new(big.Int).SetBytes(h[:])
HashBig(h) == MkInt(FALSE, StripZeros(h))

\* two's complement negation of a fixed-width byte string
RECURSIVE AddOne(_)
AddOne(bs) ==
    IF bs = <<>> THEN <<>>
    ELSE LET n == Len(bs)
             lo == bs[n]
             hi == SubSeq(bs, 1, n - 1)
         IN  IF lo = 255 THEN AddOne(hi) \o <<0>> ELSE hi \o <<lo + 1>>

TwosNeg(bs) == AddOne([i \in 1..Len(bs) |-> 255 - bs[i]])

\* the low 64 bits of a magnitude
Low64(abs) ==
    IF Len(abs) >= 8 THEN SubSeq(abs, Len(abs) - 7, Len(abs)) ELSE LeftPad(abs, 8)

\* a 64-bit pattern read as a signed integer
FromBits64(w) ==
    IF w[1] >= 128 THEN MkInt(TRUE, StripZeros(TwosNeg(w)))
    ELSE MkInt(FALSE, StripZeros(w))

\* big.Int.Int64(): the low 64 bits, negated when the value is negative
BigInt64(b) == FromBits64(IF b.neg THEN TwosNeg(Low64(b.abs)) ELSE Low64(b.abs))

\* big.Int.IsInt64()
IsInt64(b) ==
    /\ Len(b.abs) <= 8
    /\ LET w == FromBits64(Low64(b.abs))
       IN  \/ ~w.neg
           \/ b.neg /\ w = FromBits64(TwosNeg(Low64(b.abs)))

\* magnitude comparison of normalized big-endian byte strings
RECURSIVE LexLess(_, _)
LexLess(a, b) ==
    IF a = <<>> THEN FALSE
    ELSE IF Head(a) # Head(b) THEN Head(a) < Head(b)
    ELSE LexLess(Tail(a), Tail(b))

AbsLess(a, b) == Len(a) < Len(b) \/ (Len(a) = Len(b) /\ LexLess(a, b))

IntLess(x, y) ==
    IF x.neg # y.neg THEN x.neg
    ELSE IF x.neg THEN AbsLess(y.abs, x.abs) ELSE AbsLess(x.abs, y.abs)

IntLeq(x, y) == x = y \/ IntLess(x, y)

\* int64(^int(0)) of BigIntToInt: all bits set, which is -1
AllOnesInt == FromBits64([i \in 1..8 |-> 255])
\* int64(-1<<63) of BigIntToInt
MinInt64 == MkInt(TRUE, <<128, 0, 0, 0, 0, 0, 0, 0>>)

ErrNil == "nil"
ErrOutOfRange == "big.Int value is out of int range"

\* variant: converts without asking whether the value fits
BigIntToIntTruncating(b) == [val |-> BigInt64(b), err |-> ErrNil]

\* models.BigIntToInt
BigIntToInt(b) ==
    IF IsInt64(b)
    THEN LET i64 == BigInt64(b)
         IN  IF IntLeq(AllOnesInt, i64) \/ IntLeq(i64, MinInt64)
             THEN [val |-> i64, err |-> ErrNil]
             ELSE [val |-> MkInt(FALSE, <<>>), err |-> ErrOutOfRange]
    ELSE [val |-> MkInt(FALSE, <<>>), err |-> ErrOutOfRange]

\* ------------------------------------------------------------------------
\* Logs of the event source
\* ------------------------------------------------------------------------
Word(bs) == LeftPad(bs, HashLength)
Addr(b) == LeftPad(<<b>>, AddressLength)

\* crypto.Keccak256Hash("Transfer(address,address,uint256)")
transferEventHash ==
    <<221, 242, 82, 173, 27, 226, 200, 155, 105, 194, 176, 104, 252, 55, 141, 170,
      149, 43, 167, 241, 99, 196, 161, 22, 40, 245, 90, 77, 245, 35, 179, 239>>
\* the signature hash of another event, Approval(address,address,uint256)
approvalEventHash ==
    <<140, 91, 225, 229, 235, 236, 125, 91, 209, 79, 113, 66, 125, 30, 132, 243,
      221, 3, 20, 192, 247, 178, 41, 30, 91, 32, 10, 200, 199, 195, 185, 37>>

ContractA == Addr(161)
ContractB == Addr(162)
OtherContract == Addr(163)

OwnerX == Addr(1)
OwnerY == Addr(2)
OwnerZ == Addr(3)

Tok7 == Word(<<7>>)
Tok9 == Word(<<9>>)
\* 2^63 - 1, the largest int
TokMaxInt == Word(<<127, 255, 255, 255, 255, 255, 255, 255>>)
\* 2^63
TokPastInt == Word(<<128, 0, 0, 0, 0, 0, 0, 0>>)
\* 2^64 + 7: its low 64 bits are 7
TokWrap7 == Word(<<1, 0, 0, 0, 0, 0, 0, 0, 7>>)
\* an address topic whose upper 12 bytes are not zero
DirtyY == <<255>> \o Zeros(HashLength - AddressLength - 1) \o OwnerY

\* The shapes of log the event source can hold: emitting address, topics and
\* data payload.  Block number, log index and transaction hash come from the
\* place of the log in the chain.
LogShapes == <<
    [address |-> ContractA, topics |-> <<transferEventHash, Word(<<>>), Word(OwnerX), Tok7>>, data |-> <<>>],
    [address |-> ContractA, topics |-> <<transferEventHash, Word(OwnerX), Word(OwnerY), Tok7>>, data |-> <<>>],
    [address |-> ContractB, topics |-> <<transferEventHash, Word(<<>>), Word(OwnerZ), Tok9>>, data |-> <<>>],
    \* an ERC-20 style Transfer: same signature, the amount is not indexed
    [address |-> ContractA, topics |-> <<transferEventHash, Word(OwnerX), Word(OwnerY)>>, data |-> Word(<<5>>)],
    [address |-> ContractA, topics |-> <<transferEventHash, Word(<<>>), Word(OwnerX), TokPastInt>>, data |-> <<>>],
    [address |-> ContractA, topics |-> <<approvalEventHash, Word(OwnerX), Word(OwnerY), Tok7>>, data |-> <<>>],
    [address |-> OtherContract, topics |-> <<transferEventHash, Word(<<>>), Word(OwnerZ), Tok7>>, data |-> <<>>],
    [address |-> ContractB, topics |-> <<transferEventHash, Word(OwnerZ), DirtyY, TokMaxInt>>, data |-> Word(<<1>>)],
    [address |-> ContractA, topics |-> <<transferEventHash, Word(<<>>), Word(OwnerZ), TokWrap7>>, data |-> <<>>],
    [address |-> ContractB, topics |-> <<transferEventHash, Word(OwnerY), Word(OwnerZ), Tok7>>, data |-> Word(<<9>>)]
>>
Shapes == 1..Len(LogShapes)

\* The histories of the modelled chain.  A history gives the shapes of the
\* logs of blocks 1, 2, 3, ... in log-index order, and repeats after its last
\* entry; block 0 is empty.
Histories == <<
    \* token 7 goes to X, then to Z under another contract; then token 9
    \* appears
    << <<1>>, <<10>>, <<3>> >>,
    \* two transfers in one block, logs the filter leaves out, an identifier
    \* past the int range
    << <<1, 2>>, <<6, 7>>, <<5>> >>,
    \* a three-topic Transfer between two well-formed logs
    << <<3>>, <<4>>, <<1>> >>
>>

HistoryBlock(h, b) == Histories[h][((b - 1) % Len(Histories[h])) + 1]

\* A log is referred to by block number, log index and shape.
Ref(b, i, sh) == [block |-> b, index |-> i, shape |-> sh]

\* the types.Log behind a reference
LogOf(r) ==
    [address |-> LogShapes[r.shape].address,
     topics |-> LogShapes[r.shape].topics,
     data |-> LogShapes[r.shape].data,
     txHash |-> Word(<<r.block, r.index, r.shape>>),
     blockNumber |-> r.block,
     index |-> r.index]

\* the logs of block b (chain[b + 1] is the content of block b)
BlockLogs(ch, b) == [i \in 1..Len(ch[b + 1]) |-> Ref(b, i - 1, ch[b + 1][i])]

RECURSIVE RangeLogs(_, _, _)
RangeLogs(ch, from, to) ==
    IF from > to \/ from > Len(ch) - 1 THEN <<>>
    ELSE BlockLogs(ch, from) \o RangeLogs(ch, from + 1, to)

RECURSIVE SelectRefs(_, _, _)
SelectRefs(refs, addrs, topic0) ==
    IF refs = <<>> THEN <<>>
    ELSE LET l == LogOf(Head(refs))
             rest == SelectRefs(Tail(refs), addrs, topic0)
         IN  IF l.address \in addrs /\ Len(l.topics) >= 1 /\ l.topics[1] = topic0
             THEN <<Head(refs)>> \o rest
             ELSE rest

\* client.FilterLogs on success: the logs of blocks from..to emitted by one
\* of the addresses with the event hash as first topic, ascending by block
\* and log index
FilterLogs(ch, q) == SelectRefs(RangeLogs(ch, q.from, q.to), q.addresses, q.topic0)

\* ethereum.FilterQuery
FilterQuery(addrs, from, to) ==
    [from |-> from, to |-> to, addresses |-> addrs, topic0 |-> transferEventHash]

\* ------------------------------------------------------------------------
\* Decoding and upsert
\* ------------------------------------------------------------------------
ErrPanic == "panic: index out of range"

\* variant: the Transfer event of a token contract that carries its third
\* input in the data
transferEventABIValueInData ==
    <<[name |-> "from", type |-> "address", indexed |-> TRUE],
      [name |-> "to", type |-> "address", indexed |-> TRUE],
      [name |-> "tokenId", type |-> "uint256", indexed |-> FALSE]>>

\* the inputs of the Transfer event of the inline ABI of decodeTransferLog
transferEventABI ==
    <<[name |-> "from", type |-> "address", indexed |-> TRUE],
      [name |-> "to", type |-> "address", indexed |-> TRUE],
      [name |-> "tokenId", type |-> "uint256", indexed |-> TRUE]>>

\* Arguments.NonIndexed: the inputs an event carries in its data
NonIndexed(arguments) == SelectSeq(arguments, LAMBDA a : ~a.indexed)

\* Arguments.UnpackValues: each non-indexed input (address and uint256 are
\* static types) is read from its own word of the data, a word being as
\* long as a hash; bytes past the last word read are left alone
UnpackValues(arguments, data) ==
    IF \E i \in 1..Len(NonIndexed(arguments)) : i * HashLength > Len(data)
    THEN "abi: cannot marshal in to go type: length insufficient"
    ELSE ErrNil

\* contractABI.UnpackIntoInterface(&transferEvent, "Transfer", data): empty
\* data is an error when an input is expected in it, other data is unpacked
\* into the non-indexed inputs
UnpackIntoInterface(arguments, data) ==
    IF data = <<>>
    THEN IF NonIndexed(arguments) # <<>>
         THEN "abi: attempting to unmarshal an empty string while arguments are expected"
         ELSE ErrNil
    ELSE UnpackValues(arguments, data)

\* decodeTransferLog: to and tokenId are read from topics[2] and topics[3]
\* (Go indices); a topic index past the end of the slice panics
decodeTransferLog(delog) ==
    IF UnpackIntoInterface(transferEventABI, delog.data) # ErrNil
    THEN [to |-> Zeros(AddressLength), tokenId |-> MkInt(FALSE, <<>>), err |-> "failed to unpack Transfer event log"]
    ELSE IF Len(delog.topics) < 4
    THEN [to |-> Zeros(AddressLength), tokenId |-> MkInt(FALSE, <<>>), err |-> ErrPanic]
    ELSE [to |-> HexToAddress(BytesHex(delog.topics[3])),
          tokenId |-> HashBig(delog.topics[4]),
          err |-> ErrNil]

\* the position of the first document matching the filter {nftId: key}, or 0
RECURSIVE FindFrom(_, _, _)
FindFrom(docs, key, i) ==
    IF i > Len(docs) THEN 0
    ELSE IF docs[i].nftId = key THEN i
    ELSE FindFrom(docs, key, i + 1)

FindOne(docs, key) == FindFrom(docs, key, 1)

NewDoc(nft) ==
    [nftId |-> nft.nftId,
     ownerAddress |-> nft.ownerAddress,
     contractAddress |-> nft.contractAddress,
     txHash |-> nft.txHash,
     timeStamp |-> nft.timeStamp]

\* variant: an insert for every fact (InsertOne)
UpdateOneInserting(docs, nft) == Append(docs, NewDoc(nft))

\* variant: ownerAddress is missing from $set
UpdateOneKeepingOwner(docs, nft) ==
    LET i == FindOne(docs, nft.nftId)
    IN  IF i = 0 THEN Append(docs, NewDoc(nft))
        ELSE [docs EXCEPT ![i] = [@ EXCEPT !.contractAddress = nft.contractAddress,
                                           !.txHash = nft.txHash,
                                           !.timeStamp = nft.timeStamp]]

\* variant: txHash is missing from $set
UpdateOneKeepingTx(docs, nft) ==
    LET i == FindOne(docs, nft.nftId)
    IN  IF i = 0 THEN Append(docs, NewDoc(nft))
        ELSE [docs EXCEPT ![i] = [@ EXCEPT !.ownerAddress = nft.ownerAddress,
                                           !.contractAddress = nft.contractAddress,
                                           !.timeStamp = nft.timeStamp]]

\* variant: every field is under $setOnInsert, a matching document is kept
UpdateOneInsertOnly(docs, nft) ==
    IF FindOne(docs, nft.nftId) = 0 THEN Append(docs, NewDoc(nft)) ELSE docs

\* variant: the filter is {ownerAddress: ...} and the match is replaced
UpdateOneByOwner(docs, nft) ==
    LET Owned(i) == docs[i].ownerAddress = nft.ownerAddress
    IN  IF \E i \in 1..Len(docs) : Owned(i)
        THEN [docs EXCEPT ![CHOOSE i \in 1..Len(docs) :
                               Owned(i) /\ \A j \in 1..(i - 1) : ~Owned(j)] = NewDoc(nft)]
        ELSE Append(docs, NewDoc(nft))

\* variant: contractAddress is missing from $set
UpdateOneKeepingContract(docs, nft) ==
    LET i == FindOne(docs, nft.nftId)
    IN  IF i = 0 THEN Append(docs, NewDoc(nft))
        ELSE [docs EXCEPT ![i] = [@ EXCEPT !.ownerAddress = nft.ownerAddress,
                                           !.txHash = nft.txHash,
                                           !.timeStamp = nft.timeStamp]]

\* collection.UpdateOne(filter, {$set, $setOnInsert}, upsert) when the store
\* answers: the first matching document gets the four $set fields, and when
\* none matches a document with the key and the four fields is inserted
UpdateOne(docs, nft) ==
    LET i == FindOne(docs, nft.nftId)
    IN  IF i = 0
        THEN Append(docs, NewDoc(nft))
        ELSE [docs EXCEPT ![i] = [@ EXCEPT !.ownerAddress = nft.ownerAddress,
                                           !.contractAddress = nft.contractAddress,
                                           !.txHash = nft.txHash,
                                           !.timeStamp = nft.timeStamp]]

\* NFT.CreateUpdateNFT; dbOk tells whether the store answers the call
CreateUpdateNFT(docs, nft, dbOk) ==
    IF dbOk THEN [docs |-> UpdateOne(docs, nft), err |-> ErrNil]
    ELSE [docs |-> docs, err |-> "store error"]

\* the nftModel.NFT built by processTransferLog
MkNFT(tokenIDInt, to, delog, t) ==
    [nftId |-> tokenIDInt,
     ownerAddress |-> BytesHex(to),
     contractAddress |-> BytesHex(delog.address),
     txHash |-> BytesHex(delog.txHash),
     timeStamp |-> t]

\* processTransferLog on a log, with the clock reading t: the store after the
\* call, what happened to the log, and the error the function returns
processTransferLog(docs, delog, t, dbOk) ==
    LET dec == decodeTransferLog(delog)
    IN  IF dec.err = ErrPanic
        THEN [docs |-> docs, status |-> "panic", err |-> ErrPanic]
        ELSE IF dec.err # ErrNil
        THEN [docs |-> docs, status |-> "decode_error", err |-> "failed to decode Transfer event log"]
        ELSE LET conv == BigIntToInt(dec.tokenId)
             IN  IF conv.err # ErrNil
                 THEN [docs |-> docs, status |-> "range_error", err |-> "failed to convert tokenId to int"]
                 ELSE LET res == CreateUpdateNFT(docs, MkNFT(conv.val, dec.to, delog, t), dbOk)
                      IN  IF res.err # ErrNil
                          THEN [docs |-> res.docs, status |-> "store_error", err |-> ErrNil]
                          ELSE [docs |-> res.docs, status |-> "stored", err |-> ErrNil]

\* ------------------------------------------------------------------------
\* State
\* ------------------------------------------------------------------------
VARIABLES
    environ,      \* os.Getenv: ETH_RPC_ENDPOINT, CONTRACT_ADDRESSES, FROM_BLOCK
    contractAddrs, \* t.contractAddrs: the tracked contracts
    ret,          \* the error NewTransferEventTracker / TrackTransferEvents returned
    sourceDown,   \* event source: the connection is lost for good
    resp,         \* read API: the response being sent
    history,      \* event source: which history the chain follows
    chain,        \* event source: chain[b + 1] is the content of block b
    startBlock,   \* FROM_BLOCK as parsed by TrackTransferEvents
    pc,           \* where the tracker goroutine stands
    latestBlock,  \* local latestBlock of TrackTransferEvents (-1: not yet set)
    query,        \* block range of the FilterQuery last built
    batch,        \* logs returned by FilterLogs and not yet processed
    store,        \* documents of the NFT collection, in insertion order
    now,          \* last reading of the wall clock
    tickerOn,     \* the ticker is running (NewTicker done, Stop not yet)
    tickC,        \* content of the channel ticker.C
    ctxDone,      \* the context passed to TrackTransferEvents is cancelled
    proc,         \* history: the last log processed, what happened to it,
                  \* whether the log before it was the same one, the
                  \* timestamp its record had before and the fact the
                  \* record held before
    lastApplied,  \* history: per key, the last log whose upsert succeeded
    bfDropped,    \* history: logs whose upsert failed during the backfill
    prevPoll,     \* history: range and result of the last finished poll tick
    busy,         \* history: poll cycles started and not yet finished
    covered,      \* history: the blocks of the queries whose fetch succeeded,
                  \* and the head of the last of them
    tickEvery,    \* the period of the ticker, in milliseconds (0: no ticker yet)
    conv,         \* BigIntToInt on its own: the argument and what it returned
    indexes       \* store: the fields of the NFT collection under a unique index

vars == <<environ, contractAddrs, ret, sourceDown, resp, history, chain, startBlock, pc, latestBlock, query, batch, store, now,
          tickerOn, tickC, ctxDone, proc, lastApplied, bfDropped, prevPoll, busy,
          covered, tickEvery, conv, indexes>>

envVars == <<history, chain, startBlock, ctxDone>>
cfgVars == <<environ, contractAddrs, sourceDown, resp>>
histVars == <<proc, lastApplied, bfDropped, prevPoll, busy>>
auxVars == <<covered, tickEvery, conv, indexes>>

\* ------------------------------------------------------------------------
\* Configuration
\* ------------------------------------------------------------------------
\* Strings of the environment are sequences of characters: 0..15 stand for
\* the hex digits (0..9 also for the decimal digits), MinusSign for "-",
\* PlusSign for "+", NotADigit for any other character.  A "0x" prefix is
\* left out.
MinusSign == 17
PlusSign == 21

EndpointOk == "http://node:8545"
EndpointNoSocket == "no-such-socket"

\* ethclient.Dial: an http URL gives a client without connecting, a string
\* without scheme is dialled as an IPC socket path
Dial(endpoint) ==
    IF endpoint = EndpointOk THEN ErrNil ELSE "error connecting to Ethereum client"

\* the text "hello": no byte can be decoded from it
Garbage == <<NotADigit, 14, NotADigit, NotADigit, NotADigit>>
\* the text "12zz": one byte can be decoded from it
HexThenGarbage == <<1, 2, NotADigit, NotADigit>>
\* the text "-1": the sign is no hex digit, no byte can be decoded from it
SignedHex == <<MinusSign, 1>>

\* values of CONTRACT_ADDRESSES: unset, not a JSON array of strings, or a
\* JSON array of strings
AddrsUnset == [json |-> "unset", items |-> <<>>]
AddrsNotJson == [json |-> "invalid", items |-> <<>>]
AddrList(items) == [json |-> "array", items |-> items]

\* the loop over addrStrings: entries that parse to the zero address are
\* logged and left out
RECURSIVE ParseAddrs(_)
ParseAddrs(items) ==
    IF items = <<>> THEN {}
    ELSE LET parsedAddr == HexToAddress(Head(items))
         IN  (IF parsedAddr = Zeros(AddressLength) THEN {} ELSE {parsedAddr})
                 \cup ParseAddrs(Tail(items))

\* nftModel.GetNftCollection: the handle config.GetCollection gives, which
\* may be nil
GetNftCollection(collOk) == IF collOk THEN "NFT" ELSE "nil"

\* two documents of the collection hold the same nftId
HasDuplicateKeys(docs) ==
    \E i, j \in 1..Len(docs) : i # j /\ docs[i].nftId = docs[j].nftId

\* nftModel.CreateIndexes: the unique index on nftId is created unless the
\* store does not answer in time or holds duplicates; the error is fatal
CreateIndexes(docs, idx, dbOk) ==
    IF ~dbOk \/ HasDuplicateKeys(docs)
    THEN [fatal |-> "Failed to create index", indexes |-> idx]
    ELSE [fatal |-> "none", indexes |-> idx \cup {"nftId"}]

\* NewTransferEventTracker: whether it ended the process (log.Fatal), the
\* error it returns, the contract addresses of the tracker it builds and the
\* indexes of the collection afterwards
NewTransferEventTracker(e, docs, idx, collOk, dbOk) ==
    LET made == CreateIndexes(docs, idx, dbOk)
        Out(err, addrs) ==
            [fatal |-> "none", err |-> err, addrs |-> addrs, indexes |-> made.indexes]
    IN  IF GetNftCollection(collOk) = "nil"
        THEN [fatal |-> "Failed to get MongoDB collection", err |-> ErrNil,
              addrs |-> {}, indexes |-> idx]
        ELSE IF made.fatal # "none"
        THEN [fatal |-> made.fatal, err |-> ErrNil, addrs |-> {}, indexes |-> made.indexes]
        ELSE IF e.endpoint = ""
        THEN Out("ETH_RPC_ENDPOINT environment variable is not set", {})
        ELSE IF Dial(e.endpoint) # ErrNil
        THEN Out("error connecting to Ethereum client", {})
        ELSE IF e.addrs.json = "unset"
        THEN Out("CONTRACT_ADDRESSES environment variable is not set", {})
        ELSE IF e.addrs.json # "array"
        THEN Out("failed to parse CONTRACT_ADDRESSES environment variable", {})
        ELSE IF ParseAddrs(e.addrs.items) = {}
        THEN Out("no valid contract addresses found in CONTRACT_ADDRESSES environment variable", {})
        ELSE Out(ErrNil, ParseAddrs(e.addrs.items))

\* the value of a string of decimal digits
RECURSIVE DigitsValue(_)
DigitsValue(ds) ==
    IF ds = <<>> THEN 0 ELSE 10 * DigitsValue(SubSeq(ds, 1, Len(ds) - 1)) + ds[Len(ds)]

\* strconv.ParseInt(s, 10, 64) (the strings of the model stay far from the
\* limits of int64)
ParseInt(s) ==
    LET ds == IF s # <<>> /\ s[1] \in {MinusSign, PlusSign} THEN Tail(s) ELSE s
    IN  IF ds = <<>> \/ \E i \in 1..Len(ds) : ds[i] \notin 0..9
        THEN [val |-> 0, err |-> "invalid syntax"]
        ELSE [val |-> IF s[1] = MinusSign THEN 0 - DigitsValue(ds) ELSE DigitsValue(ds),
              err |-> ErrNil]

\* the read of FROM_BLOCK at the start of TrackTransferEvents
ParseFromBlock(s) ==
    IF s = <<>> THEN [val |-> 0, err |-> "FROM_BLOCK environment variable is not set"]
    ELSE IF ParseInt(s).err # ErrNil
    THEN [val |-> 0, err |-> "failed to parse FROM_BLOCK environment variable"]
    ELSE [val |-> ParseInt(s).val, err |-> ErrNil]

TrackedAB == AddrList(<<BytesHex(ContractA), BytesHex(ContractB)>>)
\* an environment without FETCH_INTERVAL
Env(endpoint, addrs, fromBlock) ==
    [endpoint |-> endpoint, addrs |-> addrs, fromBlock |-> fromBlock, interval |-> <<>>]
\* the environment e with FETCH_INTERVAL set to str
EnvWith(e, str) == [e EXCEPT !.interval = str]

\* Characters of a duration string: the digits 0..9, MinusSign, the letters
\* PlusSign, the letters h, m and s, and NotADigit for a character that is
\* none of these nor "." or a letter of another unit.
CharH == 18
CharM == 19
CharS == 20

\* durations are counted in milliseconds
Millisecond == 1
Second == 1000 * Millisecond
Minute == 60 * Second
Hour == 60 * Minute

\* unitMap of time.ParseDuration, 0 for a unit it does not hold
UnitValue(u) ==
    CASE u = <<CharH>> -> Hour
      [] u = <<CharM>> -> Minute
      [] u = <<CharS>> -> Second
      [] u = <<CharM, CharS>> -> Millisecond
      [] OTHER -> 0

\* the number of leading decimal digits, and of leading other characters
RECURSIVE LeadDigits(_)
LeadDigits(str) ==
    IF str = <<>> \/ str[1] \notin 0..9 THEN 0 ELSE 1 + LeadDigits(Tail(str))
RECURSIVE LeadOthers(_)
LeadOthers(str) ==
    IF str = <<>> \/ str[1] \in 0..9 THEN 0 ELSE 1 + LeadOthers(Tail(str))

\* the loop of time.ParseDuration over the groups of a number and a unit
RECURSIVE DurationGroups(_)
DurationGroups(str) ==
    IF str = <<>> THEN [val |-> 0, err |-> ErrNil]
    ELSE LET nd == LeadDigits(str)
             rest == SubSeq(str, nd + 1, Len(str))
             nu == LeadOthers(rest)
             unit == UnitValue(SubSeq(rest, 1, nu))
             more == DurationGroups(SubSeq(rest, nu + 1, Len(rest)))
         IN  IF nd = 0 THEN [val |-> 0, err |-> "time: invalid duration"]
             ELSE IF nu = 0 THEN [val |-> 0, err |-> "time: missing unit in duration"]
             ELSE IF unit = 0 THEN [val |-> 0, err |-> "time: unknown unit in duration"]
             ELSE IF more.err # ErrNil THEN more
             ELSE [val |-> DigitsValue(SubSeq(str, 1, nd)) * unit + more.val, err |-> ErrNil]

\* time.ParseDuration (the strings of the model stay far from the limits of
\* int64)
ParseDuration(str) ==
    LET neg == str # <<>> /\ str[1] = MinusSign
        body == IF str # <<>> /\ str[1] \in {MinusSign, PlusSign} THEN Tail(str) ELSE str
        r == DurationGroups(body)
    IN  IF body = <<0>> THEN [val |-> 0, err |-> ErrNil]
        ELSE IF body = <<>> THEN [val |-> 0, err |-> "time: invalid duration"]
        ELSE IF r.err # ErrNil THEN r
        ELSE [val |-> IF neg THEN 0 - r.val ELSE r.val, err |-> ErrNil]

\* the duration TrackTransferEvents hands to time.NewTicker: "10m" stands in
\* for an unset FETCH_INTERVAL, 10 minutes for one that does not parse
FetchInterval(str) ==
    LET interval == IF str = <<>> THEN <<1, 0, CharM>> ELSE str
    IN  IF ParseDuration(interval).err # ErrNil THEN 10 * Minute
        ELSE ParseDuration(interval).val

\* complete configurations: both contracts tracked, start block 1 or 2
GoodEnvs == {Env(EndpointOk, TrackedAB, fb) : fb \in {<<1>>, <<2>>}}

NoResp == [route |-> "none"]

\* the chain head: header.Number of HeaderByNumber(ctx, nil)
Head_(ch) == Len(ch) - 1

NoQuery == [kind |-> "none", from |-> -1, to |-> -1]
NoRef == Ref(-1, -1, 1)
NoProc == [ref |-> NoRef, status |-> "none", again |-> FALSE, t0 |-> -1, over |-> NoRef]
NoPoll == [from |-> -1, to |-> -1, result |-> "none"]
NoCover == [blocks |-> {}, head |-> -1]
NoConv == [b |-> MkInt(FALSE, <<>>), val |-> MkInt(FALSE, <<>>), err |-> "none"]

Processing == {"bf_process", "poll_process", "unit"}

InitCommon ==
    /\ chain = << <<>> >>
    /\ contractAddrs = {}
    /\ ret = "none"
    /\ sourceDown = FALSE
    /\ resp = NoResp
    /\ startBlock = -1
    /\ latestBlock = -1
    /\ query = NoQuery
    /\ batch = <<>>
    /\ now = 0
    /\ tickerOn = FALSE
    /\ tickC = <<>>
    /\ ctxDone = FALSE
    /\ proc = NoProc
    /\ lastApplied = <<>>
    /\ bfDropped = {}
    /\ prevPoll = NoPoll
    /\ busy = 0
    /\ covered = NoCover
    /\ tickEvery = 0
    /\ indexes = {}

\* main is about to call NewTransferEventTracker
Init ==
    /\ InitCommon
    /\ store = <<>>
    /\ conv = NoConv
    /\ history \in 1..Len(Histories)
    /\ environ \in GoodEnvs
    /\ pc = "new"

\* ------------------------------------------------------------------------
\* Environment
\* ------------------------------------------------------------------------
\* the chain grows by one block
NewBlock ==
    /\ Head_(chain) < MaxHead
    /\ chain' = Append(chain, HistoryBlock(history, Len(chain)))
    /\ UNCHANGED <<history, startBlock, pc, latestBlock, query, batch, store, now,
                   tickerOn, tickC, ctxDone>>
    /\ UNCHANGED <<cfgVars, ret>>
    /\ UNCHANGED histVars
    /\ UNCHANGED auxVars

\* variant: every tick is queued
TickerSendQueueing(c) == Append(c, "tick")

\* the runtime timer sends on ticker.C without blocking: the tick is dropped
\* when the channel is full
TickerSend(c) == IF Len(c) < TickerChanCap THEN Append(c, "tick") ELSE c

TickerFire ==
    /\ tickerOn
    /\ tickC' = TickerSend(tickC)
    /\ UNCHANGED <<history, chain, startBlock, pc, latestBlock, query, batch, store, now,
                   tickerOn, ctxDone>>
    /\ UNCHANGED <<cfgVars, ret>>
    /\ UNCHANGED histVars
    /\ UNCHANGED auxVars

\* the caller cancels the context
Cancel ==
    /\ ~ctxDone
    /\ pc \notin {"unit", "failed", "panicked", "stopped", "exited"}
    /\ ctxDone' = TRUE
    /\ UNCHANGED <<history, chain, startBlock, pc, latestBlock, query, batch, store, now,
                   tickerOn, tickC>>
    /\ UNCHANGED <<cfgVars, ret>>
    /\ UNCHANGED histVars
    /\ UNCHANGED auxVars

\* the connection to the event source is lost and does not come back
SourceLost ==
    /\ ~sourceDown
    /\ pc \notin {"unit", "failed", "panicked", "stopped", "exited"}
    /\ sourceDown' = TRUE
    /\ UNCHANGED <<environ, contractAddrs, resp, ret>>
    /\ UNCHANGED <<pc, latestBlock, query, batch, store, now, tickerOn, tickC>>
    /\ UNCHANGED envVars
    /\ UNCHANGED histVars
    /\ UNCHANGED auxVars

\* a head lookup or a log fetch can be answered
SourceAnswers == ~ctxDone /\ ~sourceDown

\* ------------------------------------------------------------------------
\* Start-up
\* ------------------------------------------------------------------------
\* main calls NewTransferEventTracker, which ends the process itself when
\* the collection or its index cannot be had; on an error main ends it
NewTracker ==
    /\ pc = "new"
    /\ \E collOk \in BOOLEAN, dbOk \in BOOLEAN :
         LET r == NewTransferEventTracker(environ, store, indexes, collOk, dbOk)
         IN  /\ indexes' = r.indexes
             /\ IF r.fatal # "none"
                THEN /\ pc' = "exited"
                     /\ UNCHANGED <<ret, contractAddrs>>
                ELSE IF r.err # ErrNil
                THEN /\ pc' = "failed"
                     /\ ret' = r.err
                     /\ contractAddrs' = contractAddrs
                ELSE /\ pc' = "track"
                     /\ ret' = ret
                     /\ contractAddrs' = r.addrs
    /\ UNCHANGED <<environ, sourceDown, resp>>
    /\ UNCHANGED <<latestBlock, query, batch, store, now, tickerOn, tickC>>
    /\ UNCHANGED envVars
    /\ UNCHANGED histVars
    /\ UNCHANGED <<covered, tickEvery, conv>>

\* main, with the tracker running in its goroutine, is in
\* http.ListenAndServe; when that returns an error log.Fatal ends the
\* process, wherever the tracker is
ListenAndServeErr ==
    /\ pc \notin {"new", "unit", "failed", "panicked", "stopped", "exited"}
    /\ pc' = "exited"
    /\ UNCHANGED <<cfgVars, ret, startBlock>>
    /\ UNCHANGED <<latestBlock, query, batch, store, now, tickerOn, tickC>>
    /\ UNCHANGED <<history, chain, ctxDone>>
    /\ UNCHANGED histVars
    /\ UNCHANGED auxVars

\* TrackTransferEvents reads FROM_BLOCK
TrackStart ==
    /\ pc = "track"
    /\ LET r == ParseFromBlock(environ.fromBlock)
       IN  IF r.err # ErrNil
           THEN /\ pc' = "failed"
                /\ ret' = r.err
                /\ startBlock' = startBlock
           ELSE /\ pc' = "bf_header"
                /\ ret' = ret
                /\ startBlock' = r.val
    /\ UNCHANGED cfgVars
    /\ UNCHANGED <<latestBlock, query, batch, store, now, tickerOn, tickC>>
    /\ UNCHANGED <<history, chain, ctxDone>>
    /\ UNCHANGED histVars
    /\ UNCHANGED auxVars

\* ------------------------------------------------------------------------
\* TrackTransferEvents: backfill
\* ------------------------------------------------------------------------
\* variant: fetchNewLogs hands the error up as the backfill does
AfterFetchErrorFatal(kind) == "failed"

\* variant: the backfill starts over after an error
AfterFetchErrorRetrying(kind) == IF kind = "backfill" THEN "bf_header" ELSE "select"

\* where the tracker goes when a head lookup or a log fetch fails: the
\* backfill returns the error, fetchNewLogs logs it and returns to the loop
AfterFetchError(kind) == IF kind = "backfill" THEN "failed" ELSE "select"

\* the history of fetches after FilterLogs has answered the query q
Cover(c, q) == [blocks |-> c.blocks \cup (q.from..q.to), head |-> q.to]

\* HeaderByNumber answers: latestBlock and the backfill query are set
BackfillHeaderOk ==
    /\ pc = "bf_header"
    /\ SourceAnswers
    /\ latestBlock' = Head_(chain)
    /\ query' = [kind |-> "backfill", from |-> startBlock, to |-> Head_(chain)]
    /\ pc' = "bf_filter"
    /\ UNCHANGED <<batch, store, now, tickerOn, tickC>>
    /\ UNCHANGED envVars
    /\ UNCHANGED <<cfgVars, ret>>
    /\ UNCHANGED histVars
    /\ UNCHANGED auxVars

BackfillHeaderErr ==
    /\ pc = "bf_header"
    /\ pc' = AfterFetchError("backfill")
    /\ ret' = "header lookup failed"
    /\ UNCHANGED <<latestBlock, query, batch, store, now, tickerOn, tickC>>
    /\ UNCHANGED envVars
    /\ UNCHANGED cfgVars
    /\ UNCHANGED histVars
    /\ UNCHANGED auxVars

BackfillFilterOk ==
    /\ pc = "bf_filter"
    /\ SourceAnswers
    /\ batch' = FilterLogs(chain, FilterQuery(contractAddrs, query.from, query.to))
    /\ pc' = "bf_process"
    /\ UNCHANGED <<latestBlock, query, store, now, tickerOn, tickC>>
    /\ UNCHANGED envVars
    /\ UNCHANGED <<cfgVars, ret>>
    /\ UNCHANGED histVars
    /\ covered' = Cover(covered, query)
    /\ UNCHANGED <<tickEvery, conv, indexes>>

BackfillFilterErr ==
    /\ pc = "bf_filter"
    /\ pc' = AfterFetchError("backfill")
    /\ ret' = "log fetch failed"
    /\ UNCHANGED <<latestBlock, query, batch, store, now, tickerOn, tickC>>
    /\ UNCHANGED envVars
    /\ UNCHANGED cfgVars
    /\ UNCHANGED histVars
    /\ UNCHANGED auxVars

\* time.Now(): the clock has moved on since the previous reading (the model
\* stops the clock at MaxClock)
TimeNow(last) == IF last < MaxClock THEN last + 1 ELSE last

\* the key under which the history remembers a log: its token identifier
KeyOf(ref) == HashBig(LogOf(ref).topics[4])

Remember(f, k, ref) == [x \in (DOMAIN f) \cup {k} |-> IF x = k THEN ref ELSE f[x]]

\* one iteration of the loops over historicalLogs / logs: processTransferLog
\* on the next log, with the next reading of the clock and an answer of the store
ProcessLog ==
    /\ pc \in Processing
    /\ batch # <<>>
    /\ \E dbOk \in BOOLEAN :
         LET ref == Head(batch)
             t == TimeNow(now)
             res == processTransferLog(store, LogOf(ref), t, dbOk)
         IN  /\ now' = t
             /\ store' = res.docs
             /\ proc' = [ref |-> ref, status |-> res.status,
                          again |-> proc.ref = ref /\ proc.status = "stored",
                          t0 |-> IF res.status = "stored" /\ FindOne(store, KeyOf(ref)) # 0
                                 THEN store[FindOne(store, KeyOf(ref))].timeStamp
                                 ELSE -1,
                          over |-> IF res.status = "stored" /\ KeyOf(ref) \in DOMAIN lastApplied
                                   THEN lastApplied[KeyOf(ref)]
                                   ELSE NoRef]
             /\ IF res.status = "panic"
                THEN /\ pc' = "panicked"
                     /\ tickerOn' = FALSE
                     /\ batch' = batch
                ELSE /\ pc' = pc
                     /\ tickerOn' = tickerOn
                     /\ batch' = Tail(batch)
             /\ lastApplied' = IF res.status = "stored"
                               THEN Remember(lastApplied, KeyOf(ref), ref)
                               ELSE lastApplied
             /\ bfDropped' = IF res.status = "store_error" /\ pc = "bf_process"
                             THEN bfDropped \cup {ref}
                             ELSE bfDropped
    /\ UNCHANGED <<latestBlock, query, tickC, prevPoll, busy>>
    /\ UNCHANGED envVars
    /\ UNCHANGED <<cfgVars, ret>>
    /\ UNCHANGED auxVars

\* variant: the head is looked up again when the loop is entered
CursorAtPollingFresh(observed, headNow) == headNow

\* the block the loop hands to fetchNewLogs: latestBlock as set from the
\* header that was read before the backfill query
CursorAtPolling(observed, headNow) == observed

\* every historical log has been attempted: FETCH_INTERVAL is read, the
\* ticker is started and the loop is entered
BackfillDone ==
    /\ pc = "bf_process"
    /\ batch = <<>>
    /\ LET duration == FetchInterval(environ.interval)
       IN  IF duration <= 0
           THEN \* time.NewTicker panics on a non-positive interval
                /\ pc' = "panicked"
                /\ UNCHANGED <<tickerOn, tickEvery, latestBlock>>
           ELSE /\ tickerOn' = TRUE
                /\ tickEvery' = duration
                /\ latestBlock' = CursorAtPolling(latestBlock, Head_(chain))
                /\ pc' = "select"
    /\ UNCHANGED <<query, batch, store, now, tickC>>
    /\ UNCHANGED envVars
    /\ UNCHANGED <<cfgVars, ret>>
    /\ UNCHANGED histVars
    /\ UNCHANGED <<covered, conv, indexes>>

\* ------------------------------------------------------------------------
\* TrackTransferEvents: the loop, and fetchNewLogs
\* ------------------------------------------------------------------------
\* variant: the tick starts two blocks after latestBlock
PollFromBlockSkipping(latest) == latest + 2

\* the fromBlock argument of fetchNewLogs(ctx, transferEventHash, latestBlock)
PollFromBlock(latest) == latest

\* case <-ticker.C
SelectTick ==
    /\ pc = "select"
    /\ tickC # <<>>
    /\ tickC' = Tail(tickC)
    /\ pc' = "poll_header"
    /\ busy' = busy + 1
    /\ UNCHANGED <<latestBlock, query, batch, store, now, tickerOn>>
    /\ UNCHANGED envVars
    /\ UNCHANGED <<cfgVars, ret>>
    /\ UNCHANGED <<proc, lastApplied, bfDropped, prevPoll>>
    /\ UNCHANGED auxVars

ErrCanceled == "context canceled"

\* variant: no error is returned
CtxErrNil(done) == ErrNil

\* ctx.Err()
CtxErr(done) == IF done THEN ErrCanceled ELSE ErrNil

\* case <-ctx.Done(): return ctx.Err(), the deferred ticker.Stop() runs
SelectDone ==
    /\ pc = "select"
    /\ ctxDone
    /\ pc' = "stopped"
    /\ ret' = CtxErr(ctxDone)
    /\ tickerOn' = FALSE
    /\ UNCHANGED <<latestBlock, query, batch, store, now, tickC>>
    /\ UNCHANGED envVars
    /\ UNCHANGED cfgVars
    /\ UNCHANGED histVars
    /\ UNCHANGED auxVars

PollHeaderOk ==
    /\ pc = "poll_header"
    /\ SourceAnswers
    /\ query' = [kind |-> "poll", from |-> PollFromBlock(latestBlock), to |-> Head_(chain)]
    /\ pc' = "poll_filter"
    /\ UNCHANGED <<latestBlock, batch, store, now, tickerOn, tickC>>
    /\ UNCHANGED envVars
    /\ UNCHANGED <<cfgVars, ret>>
    /\ UNCHANGED histVars
    /\ UNCHANGED auxVars

PollHeaderErr ==
    /\ pc = "poll_header"
    /\ pc' = AfterFetchError("poll")
    /\ prevPoll' = [from |-> PollFromBlock(latestBlock), to |-> -1, result |-> "header_error"]
    /\ busy' = busy - 1
    /\ UNCHANGED <<latestBlock, query, batch, store, now, tickerOn, tickC>>
    /\ UNCHANGED envVars
    /\ UNCHANGED <<cfgVars, ret>>
    /\ UNCHANGED <<proc, lastApplied, bfDropped>>
    /\ UNCHANGED auxVars

PollFilterOk ==
    /\ pc = "poll_filter"
    /\ SourceAnswers
    /\ batch' = FilterLogs(chain, FilterQuery(contractAddrs, query.from, query.to))
    /\ pc' = "poll_process"
    /\ UNCHANGED <<latestBlock, query, store, now, tickerOn, tickC>>
    /\ UNCHANGED envVars
    /\ UNCHANGED <<cfgVars, ret>>
    /\ UNCHANGED histVars
    /\ covered' = Cover(covered, query)
    /\ UNCHANGED <<tickEvery, conv, indexes>>

PollFilterErr ==
    /\ pc = "poll_filter"
    /\ pc' = AfterFetchError("poll")
    /\ prevPoll' = [from |-> query.from, to |-> query.to, result |-> "filter_error"]
    /\ busy' = busy - 1
    /\ UNCHANGED <<latestBlock, query, batch, store, now, tickerOn, tickC>>
    /\ UNCHANGED envVars
    /\ UNCHANGED <<cfgVars, ret>>
    /\ UNCHANGED <<proc, lastApplied, bfDropped>>
    /\ UNCHANGED auxVars

\* every log of the tick has been attempted: fetchNewLogs returns
PollDone ==
    /\ pc = "poll_process"
    /\ batch = <<>>
    /\ pc' = "select"
    /\ prevPoll' = [from |-> query.from, to |-> query.to, result |-> "ok"]
    /\ busy' = busy - 1
    /\ UNCHANGED <<latestBlock, query, batch, store, now, tickerOn, tickC>>
    /\ UNCHANGED envVars
    /\ UNCHANGED <<cfgVars, ret>>
    /\ UNCHANGED <<proc, lastApplied, bfDropped>>
    /\ UNCHANGED auxVars

Next ==
    \/ NewTracker
    \/ ListenAndServeErr
    \/ TrackStart
    \/ NewBlock
    \/ TickerFire
    \/ Cancel
    \/ BackfillHeaderOk
    \/ BackfillHeaderErr
    \/ BackfillFilterOk
    \/ BackfillFilterErr
    \/ ProcessLog
    \/ BackfillDone
    \/ SelectTick
    \/ SelectDone
    \/ PollHeaderOk
    \/ PollHeaderErr
    \/ PollFilterOk
    \/ PollFilterErr
    \/ PollDone

Spec == Init /\ [][Next]_vars

\* ------------------------------------------------------------------------
\* The tracker with a scheduler that is fair to it and an event source that
\* can be lost for good
\* ------------------------------------------------------------------------
InitLive ==
    /\ InitCommon
    /\ store = <<>>
    /\ conv = NoConv
    /\ history = 1
    /\ environ = Env(EndpointOk, TrackedAB, <<1>>)
    /\ pc = "new"

NextLive == Next \/ SourceLost

\* a failing head lookup returns, and select, which picks at random among
\* the ready cases, does not pass over a ready ctx.Done() for ever
SpecLive ==
    InitLive /\ [][NextLive]_vars /\ WF_vars(PollHeaderErr) /\ SF_vars(SelectDone)

\* ------------------------------------------------------------------------
\* Start-up under any environment
\* ------------------------------------------------------------------------
Endpoints == {"", EndpointNoSocket, EndpointOk}
AddrSettings ==
    {AddrsUnset, AddrsNotJson, AddrList(<<>>), AddrList(<<Garbage>>),
     AddrList(<<BytesHex(ContractA), Garbage>>), AddrList(<<HexThenGarbage>>),
     AddrList(<<SignedHex>>), TrackedAB}
FromBlocks == {<<>>, <<NotADigit>>, <<1>>, <<PlusSign, 1>>}

\* the collection at start-up: empty, or as an earlier version that
\* inserted a document for every log left it, with token 7 twice
LegacyStore ==
    <<NewDoc(MkNFT(HashBig(Tok7), OwnerX, LogOf(Ref(1, 0, 1)), 0)),
      NewDoc(MkNFT(HashBig(Tok7), OwnerY, LogOf(Ref(1, 1, 2)), 0))>>
InitialStores == {<<>>, LegacyStore}

InitBoot ==
    /\ InitCommon
    /\ store \in InitialStores
    /\ conv = NoConv
    /\ history = 1
    /\ environ \in {Env(ep, as, fb) : ep \in Endpoints, as \in AddrSettings, fb \in FromBlocks}
    /\ pc = "new"

SpecBoot == InitBoot /\ [][Next]_vars

\* ------------------------------------------------------------------------
\* processTransferLog on its own: any log, one after the other
\* ------------------------------------------------------------------------
InitLog ==
    /\ InitCommon
    /\ store = <<>>
    /\ conv = NoConv
    /\ history = 1
    /\ environ = Env(EndpointOk, TrackedAB, <<1>>)
    /\ pc = "unit"

\* hand one log of any shape to processTransferLog
FeedLog ==
    /\ pc = "unit"
    /\ batch = <<>>
    /\ \E sh \in Shapes : batch' = <<Ref(1, 0, sh)>>
    /\ UNCHANGED <<history, chain, startBlock, pc, latestBlock, query, store, now,
                   tickerOn, tickC, ctxDone>>
    /\ UNCHANGED <<cfgVars, ret>>
    /\ UNCHANGED histVars
    /\ UNCHANGED auxVars

NextLog == FeedLog \/ ProcessLog

SpecLog == InitLog /\ [][NextLog]_vars

\* ------------------------------------------------------------------------
\* The tracker as main runs it, under any FETCH_INTERVAL
\* ------------------------------------------------------------------------
\* unset, "x", "5", "5m", "0", "-5m", "1h30m"
Intervals ==
    {<<>>, <<NotADigit>>, <<5>>, <<5, CharM>>, <<0>>, <<MinusSign, 5, CharM>>,
     <<PlusSign, 5, CharM>>, <<1, CharH, 3, 0, CharM>>}

InitMain ==
    /\ InitCommon
    /\ store = <<>>
    /\ conv = NoConv
    /\ history = 1
    /\ environ \in {EnvWith(Env(EndpointOk, TrackedAB, <<1>>), str) : str \in Intervals}
    /\ pc = "new"

\* main passes context.Background(), which is never cancelled
NextMain ==
    \/ NewTracker
    \/ ListenAndServeErr
    \/ TrackStart
    \/ NewBlock
    \/ TickerFire
    \/ BackfillHeaderOk
    \/ BackfillHeaderErr
    \/ BackfillFilterOk
    \/ BackfillFilterErr
    \/ ProcessLog
    \/ BackfillDone
    \/ SelectTick
    \/ PollHeaderOk
    \/ PollHeaderErr
    \/ PollFilterOk
    \/ PollFilterErr
    \/ PollDone

SpecMain == InitMain /\ [][NextMain]_vars

\* ------------------------------------------------------------------------
\* BigIntToInt on its own
\* ------------------------------------------------------------------------
\* the byte hi followed by n bytes lo
Fill(hi, n, lo) == <<hi>> \o [i \in 1..n |-> lo]

\* magnitudes of one to nine bytes, around 2^63 and 2^64 and far from them
Magnitudes ==
    {<<>>, <<128, 0, 0, 0, 0, 0, 0, 1>>}
        \cup {Fill(hi, n, lo) : hi \in {1, 2, 127, 128, 255}, n \in {0, 6, 7, 8}, lo \in {0, 255}}

\* the arguments handed to BigIntToInt, of either sign
IntArgs == {MkInt(neg, abs) : neg \in BOOLEAN, abs \in Magnitudes}

InitInt ==
    /\ InitCommon
    /\ store = <<>>
    /\ history = 1
    /\ environ = Env(EndpointOk, TrackedAB, <<1>>)
    /\ pc = "int"
    /\ \E b \in IntArgs : conv = [NoConv EXCEPT !.b = b]

\* the call BigIntToInt(b)
Convert ==
    /\ pc = "int"
    /\ conv.err = "none"
    /\ conv' = [b |-> conv.b, val |-> BigIntToInt(conv.b).val, err |-> BigIntToInt(conv.b).err]
    /\ UNCHANGED <<covered, tickEvery, indexes>>
    /\ UNCHANGED <<pc, latestBlock, query, batch, store, now, tickerOn, tickC>>
    /\ UNCHANGED <<cfgVars, ret>>
    /\ UNCHANGED envVars
    /\ UNCHANGED histVars

NextInt == Convert

SpecInt == InitInt /\ [][NextInt]_vars

\* ------------------------------------------------------------------------
\* The read API next to processTransferLog
\* ------------------------------------------------------------------------
StatusOK == 200
StatusInternalServerError == 500

\* the facts the harness feeds: token 7 to X under contract A, token 9 to Z
\* under contract B, token 7 to Z under contract B
ApiShapes == {1, 3, 10}
\* the wallets asked for
Wallets == {BytesHex(OwnerX), BytesHex(OwnerZ)}

\* the filter of collection.Find: bson.M{} or bson.M{"ownerAddress": wallet}
Matches(doc, route, wallet) == route = "all" \/ doc.ownerAddress = wallet

\* cursor.Decode(&nft): the fields of the document; tokenUri is never stored
DecodeDoc(doc) ==
    [nftId |-> doc.nftId,
     ownerAddress |-> doc.ownerAddress,
     contractAddress |-> doc.contractAddress,
     tokenUri |-> "",
     txHash |-> doc.txHash,
     timeStamp |-> doc.timeStamp]

\* the documents a cursor sorted by nftId descending has still to return
\* once it has returned the documents at the positions seen, the last of
\* them decoded as the last of nfts: documents of one nftId all come
CursorRest(docs, route, wallet, seen, nfts) ==
    {i \in 1..Len(docs) \ seen :
        /\ Matches(docs[i], route, wallet)
        /\ nfts # <<>> => ~IntLess(nfts[Len(nfts)].nftId, docs[i].nftId)}

\* json.NewEncoder(w).Encode(nfts): a nil slice is encoded as null
EncodeNfts(nfts) == [null |-> nfts = <<>>, items |-> nfts]

\* the status the controllers write: the error of the model call is logged
\* and the header is written with http.StatusOK whatever it was
StatusWritten(err) == StatusOK

\* the controller from the return of the model call on: (nfts, err) is what
\* GetAllNfts / GetWalletNfts returned, encOk whether the body could be
\* written; a failed Encode calls http.Error after the header has gone out
Respond(route, wallet, nfts, err, encOk) ==
    [route |-> route, wallet |-> wallet, phase |-> "sent",
     seen |-> {}, nfts |-> nfts, err |-> err,
     status |-> StatusWritten(err),
     body |-> IF encOk THEN EncodeNfts(nfts) ELSE [null |-> FALSE, items |-> <<>>],
     encoded |-> encOk]

\* the process serves requests once main has the tracker and goes on to
\* http.ListenAndServe, as long as it has not been ended
Serving == pc \notin {"new", "failed", "panicked", "stopped", "exited"}

\* a request arrives: collection.Find either fails, and the handler answers
\* at once, or opens a cursor
ApiFind ==
    /\ Serving
    /\ resp = NoResp
    /\ \E route \in {"all", "wallet"}, w \in Wallets, dbOk \in BOOLEAN, encOk \in BOOLEAN :
         LET wallet == IF route = "all" THEN <<>> ELSE w
         IN  /\ route = "all" => w = BytesHex(OwnerX)
             /\ IF dbOk
                THEN /\ encOk
                     /\ resp' = [route |-> route, wallet |-> wallet, phase |-> "cursor",
                                  seen |-> {}, nfts |-> <<>>, err |-> ErrNil, status |-> 0,
                                  body |-> EncodeNfts(<<>>), encoded |-> FALSE]
                ELSE resp' = Respond(route, wallet, <<>>, "find failed", encOk)
    /\ UNCHANGED <<environ, contractAddrs, sourceDown, ret>>
    /\ UNCHANGED <<pc, latestBlock, query, batch, store, now, tickerOn, tickC>>
    /\ UNCHANGED envVars
    /\ UNCHANGED histVars
    /\ UNCHANGED auxVars

\* cursor.Next / cursor.Decode: the next document in descending nftId order
\* (any of them among documents of one nftId) is appended; on an error the model call returns (nil, err); when the
\* cursor is exhausted it returns the slice and the handler answers
ApiCursorNext ==
    /\ Serving
    /\ resp # NoResp
    /\ resp.phase = "cursor"
    /\ \E ok \in BOOLEAN, encOk \in BOOLEAN :
         LET rest == CursorRest(store, resp.route, resp.wallet, resp.seen, resp.nfts)
         IN  IF ~ok
             THEN resp' = Respond(resp.route, resp.wallet, <<>>, "cursor error", encOk)
             ELSE IF rest = {}
             THEN resp' = Respond(resp.route, resp.wallet, resp.nfts, ErrNil, encOk)
             ELSE /\ encOk
                  /\ \E i \in rest :
                       /\ \A j \in rest : ~IntLess(store[i].nftId, store[j].nftId)
                       /\ resp' = [resp EXCEPT !.seen = @ \cup {i},
                                                !.nfts = Append(@, DecodeDoc(store[i]))]
    /\ UNCHANGED <<environ, contractAddrs, sourceDown, ret>>
    /\ UNCHANGED <<pc, latestBlock, query, batch, store, now, tickerOn, tickC>>
    /\ UNCHANGED envVars
    /\ UNCHANGED histVars
    /\ UNCHANGED auxVars

\* the response has gone out
ApiDeliver ==
    /\ resp # NoResp
    /\ resp.phase = "sent"
    /\ resp' = NoResp
    /\ UNCHANGED <<environ, contractAddrs, sourceDown, ret>>
    /\ UNCHANGED <<pc, latestBlock, query, batch, store, now, tickerOn, tickC>>
    /\ UNCHANGED envVars
    /\ UNCHANGED histVars
    /\ UNCHANGED auxVars

\* hand one of the facts to processTransferLog
FeedFact ==
    /\ pc = "unit"
    /\ batch = <<>>
    /\ \E sh \in ApiShapes : batch' = <<Ref(1, 0, sh)>>
    /\ UNCHANGED <<history, chain, startBlock, pc, latestBlock, query, store, now,
                   tickerOn, tickC, ctxDone>>
    /\ UNCHANGED <<cfgVars, ret>>
    /\ UNCHANGED histVars
    /\ UNCHANGED auxVars

NextApi == FeedFact \/ ProcessLog \/ ApiFind \/ ApiCursorNext \/ ApiDeliver

SpecApi == InitLog /\ [][NextApi]_vars

\* ------------------------------------------------------------------------
\* Properties
\* ------------------------------------------------------------------------
PollErrors == {"header_error", "filter_error"}
InPoll == {"poll_header", "poll_filter", "poll_process"}

\* a step that is one call of processTransferLog on Head(batch)
ProcStep ==
    /\ pc \in Processing
    /\ batch # <<>>
    /\ pc' # "exited"
    /\ (pc' # pc \/ batch' # batch)

\* the address an indexed address topic holds: its low 20 bytes
TopicAddress(topic) == SubSeq(topic, HashLength - AddressLength + 1, HashLength)
\* the receiver and the token identifier of a four-topic log
ToOf(ref) == TopicAddress(LogOf(ref).topics[3])
\* a non-negative integer below 2^63
FitsInt(b) == ~b.neg /\ (Len(b.abs) < 8 \/ (Len(b.abs) = 8 /\ b.abs[1] < 128))

StoreKeys == {store[i].nftId : i \in 1..Len(store)}
DocsOf(docs, k) == {i \in 1..Len(docs) : docs[i].nftId = k}

\* C1: every poll query starts at cursor + 1, and after a tick whose head
\* lookup and log fetch succeeded the cursor is the head that tick observed.
C1_PollStartsAfterCursor ==
    /\ pc = "poll_filter" => query.from = latestBlock + 1
    /\ (pc = "select" /\ prevPoll.result = "ok") => latestBlock = prevPoll.to

\* C2: a poll tick whose head lookup or log fetch fails writes nothing, keeps
\* the cursor and returns to the loop; the tick after it queries from the same
\* block up to the head it observes itself, which covers the failed range.
\* (The tick leaves the cycle by its own step; the end of the whole process
\* is no step of the tick.)
C2_FailedTickRetried ==
    [][/\ (pc \in {"poll_header", "poll_filter"} /\ pc' \notin InPoll \cup {"exited"})
          => /\ prevPoll'.result \in PollErrors
             /\ store' = store
             /\ latestBlock' = latestBlock
             /\ pc' = "select"
       /\ (pc = "poll_header" /\ pc' = "poll_filter" /\ prevPoll.result \in PollErrors)
          => /\ query'.from = prevPoll.from
             /\ query'.to = Head_(chain)
             /\ query'.to >= prevPoll.to
      ]_vars

C2_Witness ==
    /\ pc = "poll_filter"
    /\ prevPoll.result = "filter_error"
    /\ query.from = prevPoll.from
    /\ query.to > prevPoll.to

\* C3: a log of a batch that fails to decode, to convert or to upsert is
\* skipped and the tracker goes on with the rest of the batch.
C3_FailingLogSkipped ==
    [][ProcStep => /\ pc' = pc
                   /\ batch' = Tail(batch)
                   /\ proc'.status # "stored" => store' = store
      ]_vars

\* the logs the backfill query asks for, in source order
BackfillLogs == FilterLogs(chain, FilterQuery(contractAddrs, startBlock, latestBlock))
BackfillFinished == pc = "bf_process" /\ batch = <<>>

\* the last log of a sequence of references that has token identifier k
RECURSIVE LastWith(_, _)
LastWith(refs, k) ==
    IF refs = <<>> THEN Ref(-1, -1, 1)
    ELSE IF KeyOf(refs[Len(refs)]) = k THEN refs[Len(refs)]
    ELSE LastWith(SubSeq(refs, 1, Len(refs) - 1), k)

Keep(refs, Test(_)) == SelectSeq(refs, Test)

\* exactly the tokens of refs have a record, one each, owned by the receiver
\* of the last log of the token
OwnersMatch(refs) ==
    /\ StoreKeys = {KeyOf(refs[i]) : i \in 1..Len(refs)}
    /\ \A k \in StoreKeys :
         /\ Cardinality(DocsOf(store, k)) = 1
         /\ \A i \in DocsOf(store, k) :
              store[i].ownerAddress = BytesHex(ToOf(LastWith(refs, k)))

\* C4 as stated: after the backfill every token with a decodable log in the
\* range has exactly one record, owned by the receiver of its last such log,
\* and no other token has a record.
C4_BackfillOwnersOfDecodable ==
    BackfillFinished =>
        LET Decodable(r) == Len(LogOf(r).topics) = 4
        IN  OwnersMatch(Keep(BackfillLogs, Decodable))

\* C4 (amended): after the backfill exactly the tokens with an in-range log
\* that decodes, has an identifier within the int range and was upserted
\* successfully have a record, one each, owned by the receiver of the last
\* such log.
C4_BackfillOwners ==
    BackfillFinished =>
        LET Applied(r) == /\ Len(LogOf(r).topics) = 4
                          /\ FitsInt(KeyOf(r))
                          /\ r \notin bfDropped
        IN  OwnersMatch(Keep(BackfillLogs, Applied))

\* two transfers of token 7 in the range, the record names the second receiver
C4_Witness ==
    /\ BackfillFinished
    /\ history = 2
    /\ Len(BackfillLogs) = 2
    /\ bfDropped = {}
    /\ Len(store) = 1
    /\ store[1].ownerAddress = BytesHex(OwnerY)
    /\ store[1].nftId = HashBig(Tok7)

\* C5: the store never holds two records with the same tokenId, and the
\* owner, contract and transaction hash of a record are those of the last
\* fact applied for its tokenId.
C5_OneRecordPerToken ==
    /\ \A i, j \in 1..Len(store) : store[i].nftId = store[j].nftId => i = j
    /\ \A i \in 1..Len(store) :
         /\ store[i].nftId \in DOMAIN lastApplied
         /\ LET l == LogOf(lastApplied[store[i].nftId])
            IN  /\ store[i].ownerAddress = BytesHex(TopicAddress(l.topics[3]))
                /\ store[i].contractAddress = BytesHex(l.address)
                /\ store[i].txHash = BytesHex(l.txHash)

\* two facts for token 7 were applied, the second under another contract
C5_Witness ==
    /\ history = 1
    /\ startBlock = 1
    /\ BackfillFinished
    /\ bfDropped = {}
    /\ Len(BackfillLogs) = 2
    /\ Len(store) = 1
    /\ store[1].contractAddress = BytesHex(ContractB)
    /\ store[1].ownerAddress = BytesHex(OwnerZ)

\* the log being processed is the one processed just before, and that time
\* its fact was stored
SameLogAgain == ProcStep /\ proc.ref = Head(batch) /\ proc.status = "stored"

\* C6 as stated: processing the same log a second time leaves every field of
\* every record as it was, observedAt included.
C6_ReprocessingChangesNothing ==
    [][SameLogAgain => store' = store]_vars

\* C6 (amended): processing the same log a second time leaves tokenId, owner,
\* contract and transaction hash of every record as they were and adds no
\* record; only observedAt of the token's record may change, to the time of
\* the second processing.
C6_ReprocessingKeepsFacts ==
    [][SameLogAgain =>
         /\ Len(store') = Len(store)
         /\ \A i \in 1..Len(store) :
              /\ store'[i].nftId = store[i].nftId
              /\ store'[i].ownerAddress = store[i].ownerAddress
              /\ store'[i].contractAddress = store[i].contractAddress
              /\ store'[i].txHash = store[i].txHash
              /\ store'[i].timeStamp \in {store[i].timeStamp, now'}
              /\ store[i].nftId # KeyOf(Head(batch))
                   => store'[i].timeStamp = store[i].timeStamp
      ]_vars

\* the same log was stored twice in a row, at two different times
C6_Witness ==
    /\ pc = "unit"
    /\ proc.again
    /\ proc.status = "stored"
    /\ proc.t0 # -1
    /\ proc.t0 # now
    /\ \E i \in 1..Len(store) : store[i].nftId = KeyOf(proc.ref) /\ store[i].timeStamp = now

\* C7: a log with fewer than four topics, or whose first topic is not the
\* Transfer signature hash, is answered with a decode error, writes nothing
\* and leaves the tracker running on the next log.
C7_MalformedLogRejected ==
    [][(ProcStep /\ LET l == LogOf(Head(batch))
                    IN  Len(l.topics) < 4 \/ l.topics[1] # transferEventHash)
         => /\ proc'.status = "decode_error"
            /\ store' = store
            /\ pc' = pc
            /\ batch' = Tail(batch)
      ]_vars

\* C8: a four-topic Transfer log decodes without error to the address held in
\* topics[2] and the unsigned integer held in topics[3], and the record
\* written for it carries that receiver and the emitting contract.
C8_DecodeCorrect ==
    [][(ProcStep /\ LET l == LogOf(Head(batch))
                    IN  Len(l.topics) = 4 /\ l.topics[1] = transferEventHash)
         => LET l == LogOf(Head(batch))
                dec == decodeTransferLog(l)
            IN  /\ dec.err = ErrNil
                /\ dec.to = TopicAddress(l.topics[3])
                /\ ~dec.tokenId.neg
                /\ LeftPad(dec.tokenId.abs, HashLength) = l.topics[4]
                /\ proc'.status \in {"stored", "range_error", "store_error"}
                /\ proc'.status = "stored"
                     => \E i \in 1..Len(store') :
                          /\ store'[i].nftId = dec.tokenId
                          /\ store'[i].ownerAddress = BytesHex(TopicAddress(l.topics[3]))
                          /\ store'[i].contractAddress = BytesHex(l.address)
      ]_vars

\* the log whose receiver topic has non-zero upper bytes was stored
C8_Witness ==
    /\ pc = "unit"
    /\ proc.status = "stored"
    /\ proc.ref.shape = 8
    /\ \E i \in 1..Len(store) :
         /\ store[i].nftId = HashBig(TokMaxInt)
         /\ store[i].ownerAddress = BytesHex(OwnerY)
         /\ store[i].contractAddress = BytesHex(ContractB)

\* C9: a token identifier outside the int range is refused with an error and
\* nothing is written for it; whatever a call writes, it writes under the
\* token identifier of its fact.
C9_NoTruncatedKey ==
    [][(ProcStep /\ Len(LogOf(Head(batch)).topics) = 4)
         => LET id == KeyOf(Head(batch))
            IN  /\ ~FitsInt(id) => (proc'.status = "range_error" /\ store' = store)
                /\ \A i \in 1..Len(store') :
                     (i > Len(store) \/ store'[i] # store[i]) => store'[i].nftId = id
      ]_vars

\* the identifier 2^64 + 7 was refused, not stored as 7
C9_Witness ==
    /\ pc = "unit"
    /\ proc.status = "range_error"
    /\ proc.ref.shape = 9
    /\ \A i \in 1..Len(store) : store[i].nftId # HashBig(Tok7)

\* C10: at most one tick waits in the ticker channel, and at most one poll
\* cycle is running: a cycle starts only after the one before has finished
\* (a cycle is left unfinished only by a panic or the end of the process).
C10_TicksCoalesced ==
    /\ Len(tickC) <= 1
    /\ busy <= 1
    /\ busy = 1 => pc \in InPoll \cup {"panicked", "exited"}
    /\ pc \in InPoll => busy = 1

\* a tick is waiting while the cycle of the tick before is still processing
C10_Witness ==
    /\ pc = "poll_process"
    /\ batch # <<>>
    /\ Len(tickC) = 1
    /\ busy = 1

Looping == InPoll \cup {"select"}

\* C12: a poll tick that fails because the event source is lost for good ends
\* the loop with an error for the caller, and the loop is left only through
\* cancellation or such a failure (the end of the whole process aside).
C12_ConnectionLossStopsLoop ==
    [][/\ (pc \in {"poll_header", "poll_filter"} /\ sourceDown
              /\ pc' \notin InPoll \cup {"exited"})
          => (pc' = "failed" /\ ret' \notin {"none", ErrNil})
       /\ (pc \in Looping /\ pc' \notin Looping) => pc' \in {"stopped", "failed", "exited"}
      ]_vars

\* the order of the positions of the tracker
PcRank(p) ==
    CASE p \in {"new", "track"} -> 0
      [] p = "bf_header" -> 1
      [] p = "bf_filter" -> 2
      [] p = "bf_process" -> 3
      [] p \in Looping -> 4
      [] OTHER -> 5

\* C13: the tracker initializes, backfills, polls and stops in that order:
\* the backfill query is issued once, the loop is entered only when every
\* backfill log has been attempted, and the cursor the loop starts with is
\* the head read before the backfill query, not a later one.
C13_PhasesInOrder ==
    [][/\ PcRank(pc') >= PcRank(pc)
       /\ (pc' = "bf_filter" /\ pc # "bf_filter") => pc = "bf_header"
       /\ (pc' \in Looping /\ pc \notin Looping) => (pc = "bf_process" /\ batch = <<>>)
       /\ (pc = "bf_header" /\ pc' = "bf_filter") => latestBlock' = Head_(chain)
       /\ pc \in {"bf_filter", "bf_process"} => latestBlock' = latestBlock
      ]_vars

\* the loop was entered with the head of the backfill although the chain
\* has grown since
C13_Witness ==
    /\ pc = "select"
    /\ prevPoll = NoPoll
    /\ query.kind = "backfill"
    /\ latestBlock = query.to
    /\ latestBlock < Head_(chain)
    /\ store # <<>>

\* the token identifiers of the four-topic logs of blocks from..to
TokensIn(ch, from, to) ==
    LET refs == RangeLogs(ch, from, to)
    IN  {KeyOf(refs[i]) : i \in {j \in 1..Len(refs) : Len(LogOf(refs[j]).topics) = 4}}

\* C14: a poll tick taken with cursor c and head h creates or changes
\* records only of tokens that have a log in blocks c+1..h.
C14_PollTouchesNewTokensOnly ==
    [][(ProcStep /\ pc = "poll_process")
         => \A i \in 1..Len(store') :
              (i > Len(store) \/ store'[i] # store[i])
                  => store'[i].nftId \in TokensIn(chain, latestBlock + 1, query.to)
      ]_vars

\* C15: when the planned range is empty (start block above the head, or a
\* head that has not moved past the cursor) no log fetch is issued, no error
\* is raised and the cursor stays.
C15_EmptyRangeSkipped ==
    [][/\ (pc = "bf_header" /\ Head_(chain) < startBlock) => pc' # "bf_filter"
       /\ (pc = "poll_header" /\ Head_(chain) <= latestBlock) => pc' # "poll_filter"
       /\ (pc \in {"bf_filter", "poll_filter"} /\ pc' # pc) => query.from <= query.to
       /\ pc \in {"poll_header", "poll_filter"} => latestBlock' = latestBlock
      ]_vars

\* the record of the token of ref carries the fact of ref
Reflects(docs, ref) ==
    \E i \in 1..Len(docs) :
        /\ docs[i].nftId = KeyOf(ref)
        /\ docs[i].ownerAddress = BytesHex(ToOf(ref))
        /\ docs[i].contractAddress = BytesHex(LogOf(ref).address)
        /\ docs[i].txHash = BytesHex(LogOf(ref).txHash)

\* a fact is stored for a token whose record holds a fact of a later block
OutOfOrder ==
    /\ ProcStep
    /\ proc'.status = "stored"
    /\ KeyOf(Head(batch)) \in DOMAIN lastApplied
    /\ lastApplied[KeyOf(Head(batch))].block > Head(batch).block

\* C16 as stated: when fact B of a later block is applied before fact A of
\* an earlier block of the same token, the store reflects B.
C16_LaterFactSurvives ==
    [][OutOfOrder => Reflects(store', lastApplied[KeyOf(Head(batch))])]_vars

\* C16 (amended): the upsert overwrites whatever the record holds, without
\* regard to block number or log index: when fact A of an earlier block is
\* applied after fact B of a later block of the same token, the store
\* reflects A and no longer B.
C16_LastAppliedWins ==
    [][/\ (ProcStep /\ proc'.status = "stored") => Reflects(store', Head(batch))
       /\ OutOfOrder => ~Reflects(store', lastApplied[KeyOf(Head(batch))])
      ]_vars

\* the record of token 7 went back from the fact of block 2 to that of block 1
C16_Witness ==
    /\ proc.status = "stored"
    /\ proc.over # NoRef
    /\ proc.over.block > proc.ref.block
    /\ Reflects(store, proc.ref)
    /\ ~Reflects(store, proc.over)

\* C17: no record is ever deleted and the tokenId of a record never changes.
C17_RecordsStay ==
    [][/\ Len(store') >= Len(store)
       /\ \A i \in 1..Len(store) : store'[i].nftId = store[i].nftId
       /\ StoreKeys \subseteq {store'[i].nftId : i \in 1..Len(store')}
      ]_vars

\* a second token got its record and the record of the first was updated
C17_Witness ==
    /\ pc = "poll_process"
    /\ Len(store) = 2
    /\ proc.status = "stored"
    /\ proc.t0 # -1
    /\ proc.over # NoRef
    /\ proc.over # proc.ref

\* a contract address is AddressLength bytes in hex
MalformedAddress(str) ==
    Len(str) # 2 * AddressLength \/ \E i \in 1..Len(str) : str[i] \notin 0..15

\* a decimal integer: digits after at most one sign
DecimalInteger(str) ==
    LET ds == IF str # <<>> /\ str[1] \in {MinusSign, PlusSign} THEN Tail(str) ELSE str
    IN  ds # <<>> /\ \A i \in 1..Len(ds) : ds[i] \in 0..9

\* a value of the environment is missing or malformed
ConfigMalformed(e) ==
    \/ e.endpoint # EndpointOk
    \/ e.addrs.json # "array"
    \/ e.addrs.items = <<>>
    \/ \E i \in 1..Len(e.addrs.items) : MalformedAddress(e.addrs.items[i])
    \/ ~DecimalInteger(e.fromBlock)

\* C19: with a missing or malformed endpoint, address set or start block
\* the tracker fails at start-up: it returns an error (unless the store
\* ended the process before), and it looks up no head, fetches no log,
\* writes no record and never polls.
C19_BadConfigFailsAtStart ==
    ConfigMalformed(environ) =>
        /\ pc \in {"new", "track", "failed", "exited"}
        /\ pc = "failed" => ret \notin {"none", ErrNil}
        /\ latestBlock = -1
        /\ query = NoQuery
        /\ store \in InitialStores

\* the item carries one fact: token, owner, contract and transaction hash
\* are those of one and the same log
OneFact(item) ==
    \E sh \in Shapes :
        /\ Len(LogShapes[sh].topics) = 4
        /\ item.nftId = KeyOf(Ref(1, 0, sh))
        /\ item.ownerAddress = BytesHex(ToOf(Ref(1, 0, sh)))
        /\ item.contractAddress = BytesHex(LogOf(Ref(1, 0, sh)).address)
        /\ item.txHash = BytesHex(LogOf(Ref(1, 0, sh)).txHash)

\* C18: a fact is written by one operation on the record of its token, so a
\* query of the read API that runs next to the tracker never returns a
\* record mixed from two facts nor two records of one token.
C18_ReadersSeeWholeRecords ==
    /\ [](resp # NoResp =>
            /\ \A i \in 1..Len(resp.nfts) : OneFact(resp.nfts[i])
            /\ \A i, j \in 1..Len(resp.nfts) :
                 resp.nfts[i].nftId = resp.nfts[j].nftId => i = j)
    /\ [][ProcStep =>
            /\ Len(store') \in {Len(store), Len(store) + 1}
            /\ \A i \in 1..Len(store) :
                 store'[i] # store[i] => store[i].nftId = KeyOf(Head(batch))
            /\ \A i \in 1..Len(store') : OneFact(store'[i])
         ]_vars

\* a response hands out token 9 and token 7, and the record of token 7 was
\* replaced after the query had read it
C18_Witness ==
    /\ resp # NoResp
    /\ resp.phase = "sent"
    /\ resp.err = ErrNil
    /\ Len(resp.nfts) = 2
    /\ resp.nfts[2].nftId = HashBig(Tok7)
    /\ \E i \in 1..Len(store) :
         /\ store[i].nftId = HashBig(Tok7)
         /\ store[i].txHash # resp.nfts[2].txHash

\* C20: both routes answer 500 when the store query fails, and 200 with the
\* matching records only when it succeeds.
C20_StoreFailureAnswered500 ==
    (resp # NoResp /\ resp.phase = "sent") =>
        /\ resp.err # ErrNil => resp.status = StatusInternalServerError
        /\ resp.status = StatusOK =>
             /\ resp.err = ErrNil
             /\ resp.encoded => resp.body.items = resp.nfts
             /\ \A i \in 1..Len(resp.nfts) :
                  Matches(resp.nfts[i], resp.route, resp.wallet)

\* the backfill has stopped on an error of its head lookup or log fetch
BackfillFailed == pc = "failed" /\ ret \in {"header lookup failed", "log fetch failed"}

\* C24: when the head lookup or the log fetch of the backfill fails,
\* TrackTransferEvents returns the error: no record has been written, no
\* ticker started, no poll made, and the backfill is not tried again.
C24_BackfillErrorReturned ==
    /\ [](BackfillFailed =>
            /\ store = <<>>
            /\ ~tickerOn
            /\ tickC = <<>>
            /\ prevPoll = NoPoll
            /\ busy = 0
            /\ covered = NoCover)
    /\ [][/\ (pc \in {"bf_header", "bf_filter"} /\ ret' # ret) => BackfillFailed'
          /\ BackfillFailed =>
                (pc' = pc /\ ret' = ret /\ query' = query /\ batch' = batch /\ store' = store)
         ]_vars

\* the log fetch of the backfill failed on a chain that holds logs to fetch
C24_Witness ==
    /\ BackfillFailed
    /\ ret = "log fetch failed"
    /\ query.kind = "backfill"
    /\ query.from <= query.to
    /\ Head_(chain) > query.to
    /\ store = <<>>

\* a log is not earlier in the chain than another
NotBefore(a, b) == a.block > b.block \/ (a.block = b.block /\ a.index >= b.index)

\* C23: for every token the place in the chain (block, log index) of the log
\* its record reflects never goes back.
C23_RecordNeverGoesBack ==
    [][\A k \in DOMAIN lastApplied : NotBefore(lastApplied'[k], lastApplied[k])]_vars

\* C22: every block from the start block up to the head of the latest
\* cycle whose fetch succeeded lies in the range of a query whose fetch
\* succeeded, whatever cycles failed and however the head moved.
C22_NoBlockSkipped ==
    covered.head # -1 => \A b \in startBlock..covered.head : b \in covered.blocks

\* the fetch of a tick failed, and the fetch of the tick after it reached a
\* higher head
C22_Witness ==
    /\ pc = "poll_process"
    /\ prevPoll.result = "filter_error"
    /\ latestBlock < prevPoll.to
    /\ prevPoll.to < covered.head
    /\ covered.blocks = startBlock..covered.head
    /\ startBlock <= latestBlock

\* data payloads of a log: none, one word, three stray bytes
DataPayloads == {<<>>, Word(<<5>>), <<1, 2, 3>>}

\* C25: what decoding a log returns (receiver and token identifier, or the
\* error) depends on the topics only: with any other data payload the same
\* log decodes to the same outcome.
C25_DecodeIgnoresData ==
    [][ProcStep =>
         \A data \in DataPayloads :
             LET l == LogOf(Head(batch))
                 other == [l EXCEPT !.data = data]
             IN  decodeTransferLog(other) = decodeTransferLog(l)
      ]_vars

\* a log with a data payload was decoded and stored as token 7 of Z
C25_Witness ==
    /\ pc = "unit"
    /\ proc.status = "stored"
    /\ proc.ref.shape = 10
    /\ LogOf(proc.ref).data # <<>>
    /\ \E i \in 1..Len(store) :
         /\ store[i].nftId = HashBig(Tok7)
         /\ store[i].ownerAddress = BytesHex(OwnerZ)
         /\ store[i].txHash = BytesHex(LogOf(proc.ref).txHash)

\* an integer of the range [-2^63, 2^63 - 1]
InIntRange(b) ==
    \/ Len(b.abs) < 8
    \/ Len(b.abs) = 8 /\ b.abs[1] < 128
    \/ b.neg /\ b.abs = Fill(128, 7, 0)

\* C26: BigIntToInt returns its argument and no error for every integer of
\* the int range, the negative ones included, and the out-of-range error for
\* every other integer.
C26_ConvertsWholeIntRange ==
    conv.err # "none" =>
        IF InIntRange(conv.b)
        THEN conv.err = ErrNil /\ conv.val = conv.b
        ELSE conv.err = ErrOutOfRange

\* C21: whatever FETCH_INTERVAL holds, the tracker enters the loop with a
\* ticker of a fixed period: the value of the setting when it parses as a
\* duration, 10 minutes when it is unset or does not parse (the end of the
\* whole process aside).
C21_TickerPeriodSet ==
    [][/\ (BackfillFinished /\ pc' \notin {pc, "exited"}) =>
            /\ pc' = "select"
            /\ tickerOn'
            /\ tickEvery' = IF environ.interval # <<>>
                                 /\ ParseDuration(environ.interval).err = ErrNil
                             THEN ParseDuration(environ.interval).val
                             ELSE 10 * Minute
       /\ pc \in Looping => tickEvery' = tickEvery
      ]_vars

====
